---- MODULE Spec2Model ----
(***************************************************************************)
(* A model of akarui's command-tree builders (src/akarui/commands.py) and  *)
(* of the client that holds the command tables, registers them and         *)
(* dispatches interactions (src/akarui/bot.py).                            *)
(*                                                                         *)
(* Python objects that are shared by reference are modelled by identity:   *)
(* a group or sub-group is an id, its builder's option list and callback   *)
(* dictionary are the values options[id] and callbacks[id], and a place    *)
(* that holds the dictionary of a group holds the id, not a copy.          *)
(***************************************************************************)
EXTENDS Integers, Sequences, FiniteSets, TLC

\* ------------------------------------------------------------------ bounds
MaxDecl == 3        \* declarations (attachments, decorated commands) in one run
MaxBuilds == 2      \* client.command(group) calls in one run
MaxOptions == 1     \* option(...) decorators on one command

\* ------------------------------------------------------- the object universe
\* One SlashCommandGroup and two SlashSubCommandGroups are constructed; the
\* names are the ones given to their constructors.
GroupIds == {"G1"}
SubIds == {"S1", "S2"}
Owners == GroupIds \cup SubIds
NameOf(o) == CASE o = "G1" -> "a" [] o = "S1" -> "a" [] o = "S2" -> "b"

Names == {"a", "b"}
LeafNames == Names
CommandTypes == {"SLASH", "USER", "MESSAGE"}

\* ------------------------------------------------------------- Python values
\* Optional[Sequence[...]]: None, or a list.
NoneOpts == [isNone |-> TRUE, items |-> <<>>]
Some(xs) == [isNone |-> FALSE, items |-> xs]
\* `not x` for an Optional[Sequence]: None and the empty list are both falsy.
Falsy(x) == x.isNone \/ x.items = <<>>

\* A value stored in a callbacks dictionary: a callback function, or (a
\* reference to) the inner dictionary of a group or sub-group builder.
Fn(h) == [t |-> "fn", h |-> h, of |-> "-"]
MapOf(o) == [t |-> "map", h |-> 0, of |-> o]

\* d[k] = v on a dict modelled as a function
Put(d, k, v) == [x \in (DOMAIN d) \cup {k} |-> IF x = k THEN v ELSE d[x]]
EmptyDict == [x \in {} |-> Fn(0)]

VARIABLES
    sub_commands,        \* [Owners -> Seq]: each (sub-)group's _sub_commands
    sub_command_groups,  \* [GroupIds -> Seq(SubIds)]: _sub_command_groups
    options,             \* [Owners -> Seq(option)]: _builder's option list
    callbacks,           \* [Owners -> dict]: _builder.callbacks[name]
    slash_commands,      \* the client's three tables, name -> definition
    user_commands,
    message_commands,
    nfuncs,              \* callback functions declared so far
    nbuilds,             \* [GroupIds -> Nat]: client.command(group) calls
    raised,              \* the error the last declaration call raised
    last,                \* the interactions dispatched: <<>> or <<record>>
    reg,                 \* the run of register_commands
    pending,             \* the builder a decorator stack is working on
    declared,            \* [GroupIds -> Seq]: the names of a group's
                         \* attachments, in the order of the calls
    tasks                \* [TaskIds -> task]: the _handle_interaction
                         \* coroutines of the event loop

vars == <<sub_commands, sub_command_groups, options, callbacks, slash_commands,
          user_commands, message_commands, nfuncs, nbuilds, raised, last, reg,
          pending, declared, tasks>>

\* --------------------------------------------------------------- builders
\* slash_command(name, description)(func): a leaf builder with no options
\* and its callback under its own name.
slash_command(name, h) ==
    [kind |-> "leaf", name |-> name, options |-> <<>>, handler |-> h, id |-> "-"]

\* No builder is being decorated.
NoBuilder ==
    [kind |-> "none", name |-> "-", options |-> <<>>, handler |-> 0, id |-> "-"]

\* A SlashSubCommandGroup object handed to a decorator that expects a builder.
SubGroupObject(s) ==
    [kind |-> "subgroup", name |-> "-", options |-> <<>>, handler |-> 0, id |-> s]

\* hikari.CommandOption(type=SUB_COMMAND, name=cmd.name, options=cmd.options)
SubCommandOption(cmd) ==
    [type |-> "SUB_COMMAND", name |-> cmd.name, options |-> cmd.options]

\* hikari.CommandOption(type=SUB_COMMAND_GROUP, ...) from a built sub-group
SubCommandGroupOption(name, opts) ==
    [type |-> "SUB_COMMAND_GROUP", name |-> name, options |-> opts]

\* The heap a _build call works on.
Heap == [options |-> options, callbacks |-> callbacks, err |-> "none"]

\* AddSubCommands with the callback of the sub-command left out of the
\* parent's dictionary.
RECURSIVE AddSubCommands_NoCallback(_, _, _)
AddSubCommands_NoCallback(hp, o, cmds) ==
    IF cmds = <<>> \/ hp.err # "none" THEN hp
    ELSE LET cmd == Head(cmds) IN
         IF cmd.kind # "leaf"
         THEN [hp EXCEPT !.err = "AttributeError"]
         ELSE AddSubCommands_NoCallback(
                [hp EXCEPT !.options[o] = Append(@, SubCommandOption(cmd))],
                o, Tail(cmds))

\* The loop `for cmd in self._sub_commands` of either _build, on owner o:
\* every element is read as a builder (cmd.name, cmd.callbacks[cmd.name]);
\* an element without these attributes raises AttributeError and leaves the
\* options added so far in place.
RECURSIVE AddSubCommands(_, _, _)
AddSubCommands(hp, o, cmds) ==
    IF cmds = <<>> \/ hp.err # "none" THEN hp
    ELSE LET cmd == Head(cmds) IN
         IF cmd.kind # "leaf"
         THEN [hp EXCEPT !.err = "AttributeError"]
         ELSE AddSubCommands(
                [hp EXCEPT !.options[o] = Append(@, SubCommandOption(cmd)),
                           !.callbacks[o] = Put(@, cmd.name, Fn(cmd.handler))],
                o, Tail(cmds))

\* SlashSubCommandGroup._build returning the builder without the loop.
SubGroupBuild_Skip(hp, s) == hp

\* SlashSubCommandGroup._build
SubGroupBuild(hp, s) == AddSubCommands(hp, s, sub_commands[s])

\* The loop `for group in self._sub_command_groups` of SlashCommandGroup._build
RECURSIVE AddSubCommandGroups(_, _, _)
AddSubCommandGroups(hp, g, groups) ==
    IF groups = <<>> \/ hp.err # "none" THEN hp
    ELSE LET s == Head(groups)
             built == SubGroupBuild(hp, s)
         IN IF built.err # "none" THEN built
            ELSE AddSubCommandGroups(
                   [built EXCEPT
                      !.options[g] = Append(@, SubCommandGroupOption(
                                                  NameOf(s), built.options[s])),
                      !.callbacks[g] = Put(@, NameOf(s), MapOf(s))],
                   g, Tail(groups))

\* SlashCommandGroup._build
GroupBuild(hp, g) ==
    AddSubCommandGroups(AddSubCommands(hp, g, sub_commands[g]), g,
                        sub_command_groups[g])

\* A table entry: the builder object stored under its name.  A group's entry
\* is the group's own _builder (by reference); a decorated command's entry is
\* the builder the decorator made.
\* `options` is the option list of a decorated command's builder; the option
\* list of a group's builder is options[id].
GroupEntry(g) ==
    [t |-> "group", id |-> g, h |-> 0, guilds |-> <<>>, options |-> <<>>]
FlatEntry(h, guilds) ==
    [t |-> "flat", id |-> "-", h |-> h, guilds |-> guilds, options |-> <<>>]
EmptyTable == [x \in {} |-> FlatEntry(0, <<>>)]

\* The _handle_interaction coroutines the event loop runs at one time, and a
\* coroutine that has not been started.
TaskIds == {1, 2}
NoEvent == [command_type |-> "-", command_name |-> "-", options |-> NoneOpts]
NoResult == [kind |-> "none", val |-> "-"]
NoContext == [command_name |-> "-", command_type |-> "-", options |-> NoneOpts]
IdleTask ==
    [pc |-> "IDLE", event |-> NoEvent, callback |-> Fn(0), type |-> "None",
     context |-> NoContext, invoked |-> <<>>, result |-> NoResult]

\* register_commands has not been called.
RegIdle == [pc |-> "idle", open |-> FALSE, pending |-> <<>>, calls |-> <<>>,
            error |-> "none"]

\* The attachments made so far, over every group and sub-group.
RECURSIVE SumLen(_, _)
SumLen(f, S) ==
    IF S = {} THEN 0
    ELSE LET x == CHOOSE y \in S : TRUE IN Len(f[x]) + SumLen(f, S \ {x})
TotalAttached == SumLen(sub_commands, Owners) + SumLen(sub_command_groups, GroupIds)
\* The declarations made so far: every attachment, and every decorated
\* command given to the client (a callback function that is in no group).
RECURSIVE CountLeaves(_)
CountLeaves(cmds) ==
    IF cmds = <<>> THEN 0
    ELSE (IF Head(cmds).kind = "leaf" THEN 1 ELSE 0) + CountLeaves(Tail(cmds))
RECURSIVE SumLeaves(_)
SumLeaves(S) ==
    IF S = {} THEN 0
    ELSE LET x == CHOOSE y \in S : TRUE
         IN CountLeaves(sub_commands[x]) + SumLeaves(S \ {x})
Declared == TotalAttached + (nfuncs - SumLeaves(Owners))

\* ------------------------------------------------------------------- Init
Init ==
    /\ sub_commands = [o \in Owners |-> <<>>]
    /\ sub_command_groups = [g \in GroupIds |-> <<>>]
    /\ options = [o \in Owners |-> <<>>]
    /\ callbacks = [o \in Owners |-> EmptyDict]
    /\ slash_commands = EmptyTable
    /\ user_commands = EmptyTable
    /\ message_commands = EmptyTable
    /\ nfuncs = 0
    /\ nbuilds = [g \in GroupIds |-> 0]
    /\ raised = "none"
    /\ last = <<>>
    /\ reg = RegIdle
    /\ pending = NoBuilder
    /\ declared = [g \in GroupIds |-> <<>>]
    /\ tasks = [t \in TaskIds |-> IdleTask]

\* ------------------------------------------------------ declaration actions
\* @group.command() on a decorated slash command
GroupCommandLeaf(g, n) ==
    /\ Declared < MaxDecl
    /\ nfuncs' = nfuncs + 1
    /\ sub_commands' = [sub_commands EXCEPT
                          ![g] = Append(@, slash_command(n, nfuncs + 1))]
    /\ declared' = [declared EXCEPT ![g] = Append(@, n)]
    /\ raised' = "none"
    /\ UNCHANGED <<reg, pending, tasks,
                   sub_command_groups, options, callbacks, slash_commands,
                   user_commands, message_commands, nbuilds, last>>

\* group.command(sub_group)
GroupCommandSubGroup(g, s) ==
    /\ Declared < MaxDecl
    /\ sub_command_groups' = [sub_command_groups EXCEPT ![g] = Append(@, s)]
    /\ declared' = [declared EXCEPT ![g] = Append(@, NameOf(s))]
    /\ raised' = "none"
    /\ UNCHANGED <<reg, pending, tasks,
                   sub_commands, options, callbacks, slash_commands,
                   user_commands, message_commands, nfuncs, nbuilds, last>>

\* @sub_group.command() on a decorated slash command
SubGroupCommandLeaf(s, n) ==
    /\ Declared < MaxDecl
    /\ nfuncs' = nfuncs + 1
    /\ sub_commands' = [sub_commands EXCEPT
                          ![s] = Append(@, slash_command(n, nfuncs + 1))]
    /\ raised' = "none"
    /\ UNCHANGED <<reg, pending, declared, tasks,
                   sub_command_groups, options, callbacks, slash_commands,
                   user_commands, message_commands, nbuilds, last>>

\* sub_group.command(other): command() takes no positional argument, the
\* call raises TypeError before anything is done.
SubGroupCommandArg(s, other) ==
    /\ raised' = "TypeError"
    /\ UNCHANGED <<reg, pending, declared, tasks,
                   sub_commands, sub_command_groups, options, callbacks,
                   slash_commands, user_commands, message_commands, nfuncs,
                   nbuilds, last>>

\* sub_group.command()(other): inner() appends whatever it is given.
SubGroupCommandSubGroup(s, other) ==
    /\ Declared < MaxDecl
    /\ sub_commands' = [sub_commands EXCEPT ![s] = Append(@, SubGroupObject(other))]
    /\ raised' = "none"
    /\ UNCHANGED <<reg, pending, declared, tasks,
                   sub_command_groups, options, callbacks, slash_commands,
                   user_commands, message_commands, nfuncs, nbuilds, last>>

\* client.command(group): build the group, store its builder under its name.
\* An error in _build leaves the table as it was.
ClientCommandGroup(g) ==
    /\ nbuilds[g] < MaxBuilds
    /\ LET built == GroupBuild(Heap, g) IN
         /\ options' = built.options
         /\ callbacks' = built.callbacks
         /\ raised' = built.err
         /\ slash_commands' = IF built.err = "none"
                              THEN Put(slash_commands, NameOf(g), GroupEntry(g))
                              ELSE slash_commands
    /\ nbuilds' = [nbuilds EXCEPT ![g] = @ + 1]
    /\ UNCHANGED <<reg, pending, declared, tasks,
                   sub_commands, sub_command_groups, user_commands,
                   message_commands, nfuncs, last>>

\* inner() of RESTBotClient.command keeping the entry a name already has
\* (dict.setdefault in the place of the item assignment).
ClientCommand_SetDefault(type, n, guilds) ==
    LET SetDefault(d, v) == IF n \in DOMAIN d THEN d ELSE Put(d, n, v) IN
    /\ Declared < MaxDecl
    /\ nfuncs' = nfuncs + 1
    /\ slash_commands' = IF type = "SLASH"
                         THEN SetDefault(slash_commands, FlatEntry(nfuncs + 1, guilds))
                         ELSE slash_commands
    /\ user_commands' = IF type = "USER"
                        THEN SetDefault(user_commands, FlatEntry(nfuncs + 1, guilds))
                        ELSE user_commands
    /\ message_commands' = IF type = "MESSAGE"
                           THEN SetDefault(message_commands, FlatEntry(nfuncs + 1, guilds))
                           ELSE message_commands
    /\ raised' = "none"
    /\ UNCHANGED <<reg, pending, declared, tasks,
                   sub_commands, sub_command_groups, options, callbacks,
                   nbuilds, last>>

\* @client.command() on a decorated slash, user or message command whose
\* builder carries `guilds`
ClientCommand(type, n, guilds) ==
    /\ Declared < MaxDecl
    /\ nfuncs' = nfuncs + 1
    /\ slash_commands' = IF type = "SLASH"
                         THEN Put(slash_commands, n, FlatEntry(nfuncs + 1, guilds))
                         ELSE slash_commands
    /\ user_commands' = IF type = "USER"
                        THEN Put(user_commands, n, FlatEntry(nfuncs + 1, guilds))
                        ELSE user_commands
    /\ message_commands' = IF type = "MESSAGE"
                           THEN Put(message_commands, n, FlatEntry(nfuncs + 1, guilds))
                           ELSE message_commands
    /\ raised' = "none"
    /\ UNCHANGED <<reg, pending, declared, tasks,
                   sub_commands, sub_command_groups, options, callbacks,
                   nbuilds, last>>

\* ------------------------------------------------------ decorator stacks
\* The arguments of option(...) that the program gives: a plain string
\* option, choices up to and over the limit the docstring names, a minimum
\* on an integer and on a string option, channel types on a string option.
ChoiceLimit == 25
ChoicesOf(n) == Some([i \in 1..n |-> i])
Descriptor(type, choices, channel_types, min_value) ==
    [type |-> type, name |-> "o", choices |-> choices,
     channel_types |-> channel_types, min_value |-> min_value]
Descriptors ==
    {Descriptor("STRING", NoneOpts, NoneOpts, NoneOpts),
     Descriptor("STRING", ChoicesOf(ChoiceLimit), NoneOpts, NoneOpts),
     Descriptor("STRING", ChoicesOf(ChoiceLimit + 1), NoneOpts, NoneOpts),
     Descriptor("INTEGER", NoneOpts, NoneOpts, Some(<<1>>)),
     Descriptor("STRING", NoneOpts, NoneOpts, Some(<<1>>)),
     Descriptor("STRING", NoneOpts, Some(<<0>>), NoneOpts)}

\* hikari.CommandOption(type=type, name=name, choices=choices, ...): the
\* arguments are stored as they are given.
CommandOption(d) ==
    [type |-> d.type, name |-> d.name, choices |-> d.choices,
     channel_types |-> d.channel_types, min_value |-> d.min_value,
     options |-> NoneOpts]

\* The table entry of a decorated command: the builder itself.
BuilderEntry(b) ==
    [t |-> "flat", id |-> "-", h |-> b.handler, guilds |-> <<>>,
     options |-> b.options]

\* @slash_command(name, description) on a function
SlashCommandDecorate(n) ==
    /\ pending = NoBuilder
    /\ Declared < MaxDecl
    /\ nfuncs' = nfuncs + 1
    /\ pending' = slash_command(n, nfuncs + 1)
    /\ raised' = "none"
    /\ UNCHANGED <<reg, declared, tasks, sub_commands, sub_command_groups,
                   options, callbacks, slash_commands, user_commands,
                   message_commands, nbuilds, last>>

\* @option(type, name, description, ...) on the builder: inner() makes the
\* CommandOption and adds it.
OptionDecorate(d) ==
    /\ pending # NoBuilder
    /\ Len(pending.options) < MaxOptions
    /\ pending' = [pending EXCEPT !.options = Append(@, CommandOption(d))]
    /\ raised' = "none"
    /\ UNCHANGED <<reg, declared, tasks, sub_commands, sub_command_groups,
                   options, callbacks, slash_commands, user_commands,
                   message_commands, nfuncs, nbuilds, last>>

\* @client.command() on the builder
ClientCommandBuilder ==
    /\ pending # NoBuilder
    /\ slash_commands' = Put(slash_commands, pending.name, BuilderEntry(pending))
    /\ pending' = NoBuilder
    /\ raised' = "none"
    /\ UNCHANGED <<reg, declared, tasks, sub_commands, sub_command_groups,
                   options, callbacks, user_commands, message_commands,
                   nfuncs, nbuilds, last>>

\* The table of a command type.
TableOf(t) == CASE t = "SLASH" -> slash_commands
                [] t = "USER" -> user_commands
                [] t = "MESSAGE" -> message_commands

\* ---------------------------------------------------------------- events
\* A hikari.CommandInteractionOption: a value option, or a nesting option
\* whose own `options` hold the next level.
ValueOption(n, v) == [type |-> "STRING", name |-> n, value |-> v, options |-> NoneOpts]
NestingOption(type, n, opts) == [type |-> type, name |-> n, value |-> 0, options |-> opts]

NestedLists == {NoneOpts, Some(<<ValueOption("user", 123)>>)}
SubCommandEvents ==
    {NestingOption("SUB_COMMAND", n, opts) : n \in Names, opts \in NestedLists}
SubCommandGroupEvents ==
    {NestingOption("SUB_COMMAND_GROUP", n,
                   Some(<<NestingOption("SUB_COMMAND", m,
                                        Some(<<ValueOption("user", 123)>>))>>)) :
        n \in Names, m \in Names}
    \cup {NestingOption("SUB_COMMAND_GROUP", n, opts) :
        n \in {"a"}, opts \in {NoneOpts, Some(<<>>)}}

\* event.options of the interactions the model dispatches
SlashOptionLists ==
    {NoneOpts, Some(<<>>),
     Some(<<ValueOption("member", 7)>>),
     Some(<<ValueOption("member", 7), ValueOption("reason", 8)>>)}
    \cup {Some(<<o>>) : o \in SubCommandEvents \cup SubCommandGroupEvents}
    \cup {Some(<<NestingOption("SUB_COMMAND", "a", NoneOpts),
                  ValueOption("member", 7)>>)}
MenuOptionLists ==
    {NoneOpts, Some(<<ValueOption("member", 7)>>),
     Some(<<NestingOption("SUB_COMMAND", "a", NoneOpts)>>)}

Events ==
    [command_type : {"SLASH"}, command_name : Names, options : SlashOptionLists]
    \cup [command_type : {"USER", "MESSAGE"}, command_name : Names,
          options : MenuOptionLists]

\* -------------------------------------------------------------- dispatch
NoEntry == [t |-> "none", id |-> "-", h |-> 0, guilds |-> <<>>, options |-> <<>>]
\* dict.get(name) that takes the first entry when the name is missing.
Get_AnyEntry(table, n) ==
    IF n \in DOMAIN table THEN table[n]
    ELSE IF DOMAIN table # {} THEN table[CHOOSE x \in DOMAIN table : TRUE]
    ELSE NoEntry

\* dict.get(name)
Get(table, n) == IF n \in DOMAIN table THEN table[n] ELSE NoEntry

\* The lookup with the user table read for a slash command.
LookupCommand_Swapped(e) ==
    IF e.command_type = "MESSAGE" THEN Get(message_commands, e.command_name)
    ELSE IF e.command_type = "SLASH" THEN Get(user_commands, e.command_name)
    ELSE Get(slash_commands, e.command_name)

\* The table lookup of _handle_interaction: if SLASH / elif USER, then a
\* separate if MESSAGE.
LookupCommand(e) ==
    LET first == IF e.command_type = "SLASH"
                 THEN Get(slash_commands, e.command_name)
                 ELSE IF e.command_type = "USER"
                      THEN Get(user_commands, e.command_name)
                      ELSE NoEntry
    IN IF e.command_type = "MESSAGE"
       THEN Get(message_commands, e.command_name)
       ELSE first

\* command.callbacks[event.command_name]: the callback of a decorated
\* command, the inner dictionary of a group.
RootCallback(cmd) == IF cmd.t = "group" THEN MapOf(cmd.id) ELSE Fn(cmd.h)

Ok(v) == [err |-> "none", val |-> v]
Err(e) == [err |-> e, val |-> Fn(0)]

\* v[k] that gives an entry of the dictionary when k is not a key of it.
Subscript_AnyEntry(v, k) ==
    IF v.t = "fn" THEN Err("TypeError")
    ELSE IF k \in DOMAIN callbacks[v.of] THEN Ok(callbacks[v.of][k])
    ELSE IF DOMAIN callbacks[v.of] # {}
    THEN Ok(callbacks[v.of][CHOOSE x \in DOMAIN callbacks[v.of] : TRUE])
    ELSE Err("KeyError")

\* v[k] on a value of a callbacks dictionary
Subscript(v, k) ==
    IF v.t = "fn" THEN Err("TypeError")
    ELSE IF k \in DOMAIN callbacks[v.of] THEN Ok(callbacks[v.of][k])
    ELSE Err("KeyError")

Resolved(err, cb, type) == [err |-> err, callback |-> cb, type |-> type]

\* _get_callback_and_type without the early return for context-menu
\* commands.
GetCallbackAndType_NoMenuCheck(e, cmd) ==
    LET root == RootCallback(cmd) IN
    IF Falsy(e.options) THEN Resolved("none", root, "None")
    ELSE LET opt == e.options.items[1] IN
         IF opt.type = "SUB_COMMAND"
         THEN LET r == Subscript(root, opt.name)
              IN Resolved(r.err, r.val, "SUB_COMMAND")
         ELSE IF opt.type = "SUB_COMMAND_GROUP"
         THEN LET r1 == Subscript(root, opt.name) IN
              IF r1.err # "none" THEN Resolved(r1.err, r1.val, "SUB_COMMAND_GROUP")
              ELSE IF opt.options.isNone
                   THEN Resolved("TypeError", Fn(0), "SUB_COMMAND_GROUP")
              ELSE IF opt.options.items = <<>>
                   THEN Resolved("IndexError", Fn(0), "SUB_COMMAND_GROUP")
              ELSE LET r2 == Subscript(r1.val, opt.options.items[1].name)
                   IN Resolved(r2.err, r2.val, "SUB_COMMAND_GROUP")
         ELSE Resolved("none", root, "None")

\* RESTBotClient._get_callback_and_type
GetCallbackAndType(e, cmd) ==
    LET root == RootCallback(cmd) IN
    IF e.command_type \in {"USER", "MESSAGE"} THEN Resolved("none", root, "None")
    ELSE IF Falsy(e.options) THEN Resolved("none", root, "None")
    ELSE LET opt == e.options.items[1] IN
         IF opt.type = "SUB_COMMAND"
         THEN LET r == Subscript(root, opt.name)
              IN Resolved(r.err, r.val, "SUB_COMMAND")
         ELSE IF opt.type = "SUB_COMMAND_GROUP"
         THEN LET r1 == Subscript(root, opt.name) IN
              IF r1.err # "none" THEN Resolved(r1.err, r1.val, "SUB_COMMAND_GROUP")
              ELSE IF opt.options.isNone
                   THEN Resolved("TypeError", Fn(0), "SUB_COMMAND_GROUP")
              ELSE IF opt.options.items = <<>>
                   THEN Resolved("IndexError", Fn(0), "SUB_COMMAND_GROUP")
              ELSE LET r2 == Subscript(r1.val, opt.options.items[1].name)
                   IN Resolved(r2.err, r2.val, "SUB_COMMAND_GROUP")
         ELSE Resolved("none", root, "None")

\* _create_context handing over the event's own options at every depth.
CreateContext_TopLevel(e, cmd_type) == e.options

\* _create_context handing over only the first option of a flat command.
CreateContext_FirstOnly(e, cmd_type) ==
    IF cmd_type = "SUB_COMMAND" THEN e.options.items[1].options
    ELSE IF cmd_type = "SUB_COMMAND_GROUP"
    THEN e.options.items[1].options.items[1].options
    ELSE IF Falsy(e.options) THEN e.options
    ELSE Some(<<e.options.items[1]>>)

\* The options RESTBotClient._create_context hands to Context(options=...)
CreateContext(e, cmd_type) ==
    IF cmd_type = "SUB_COMMAND" THEN e.options.items[1].options
    ELSE IF cmd_type = "SUB_COMMAND_GROUP"
    THEN e.options.items[1].options.items[1].options
    ELSE e.options

Outcome(e, err, h, type, opts) ==
    [event |-> e, error |-> err, handler |-> h, type |-> type, options |-> opts]

\* RESTBotClient._handle_interaction up to the call of the callback: the
\* error raised, or the callback function called and the options of the
\* context it is given.  Calling a dictionary raises TypeError.
HandleInteraction(e) ==
    LET cmd == LookupCommand(e) IN
    IF cmd.t = "none"
    THEN Outcome(e, "CommandNotFoundError", 0, "None", NoneOpts)
    ELSE LET r == GetCallbackAndType(e, cmd) IN
         IF r.err # "none" THEN Outcome(e, r.err, 0, r.type, NoneOpts)
         ELSE IF r.callback.t # "fn"
              THEN Outcome(e, "TypeError", 0, r.type, CreateContext(e, r.type))
              ELSE Outcome(e, "none", r.callback.h, r.type,
                           CreateContext(e, r.type))

\* The listener is called with one interaction.
Dispatch(e) ==
    /\ last = <<>>
    /\ last' = <<HandleInteraction(e)>>
    /\ UNCHANGED <<reg, pending, declared, tasks,
                   sub_commands, sub_command_groups, options, callbacks,
                   slash_commands, user_commands, message_commands, nfuncs,
                   nbuilds, raised>>

\* ------------------------------------------- dispatch, one step at a time
\* The same coroutine, a statement at a time.  asyncio runs a coroutine
\* without interruption up to an await that suspends; the only await of
\* _handle_interaction is the one on the callback, so between the call of
\* the listener and the call of the callback no other coroutine runs.
LoopFree(t) ==
    \A u \in TaskIds \ {t} :
        tasks[u].pc \notin {"RECEIVED", "RESOLVED", "CONTEXT_BUILT"}

\* What a callback does when it is awaited: it returns a response builder,
\* or it raises.
HandlerResults ==
    {[kind |-> "return", val |-> "message"],
     [kind |-> "return", val |-> "deferred"],
     [kind |-> "raise", val |-> "HandlerError"]}
Raise(x) == [kind |-> "raise", val |-> x]

\* The interactions that are dispatched a step at a time.
FlightEvents ==
    {[command_type |-> "SLASH", command_name |-> "a", options |-> NoneOpts],
     [command_type |-> "SLASH", command_name |-> "a",
      options |-> Some(<<NestingOption("SUB_COMMAND", "a",
                                       Some(<<ValueOption("user", 123)>>))>>)],
     [command_type |-> "SLASH", command_name |-> "b",
      options |-> Some(<<ValueOption("member", 7)>>)],
     [command_type |-> "USER", command_name |-> "a", options |-> NoneOpts]}

\* context.Context(..., command_name=event.command_name,
\* command_type=event.command_type, options=options, ...)
BuiltContext(e, cmd_type) ==
    [command_name |-> e.command_name, command_type |-> e.command_type,
     options |-> CreateContext(e, cmd_type)]

\* The event loop calls the listener with an interaction; the coroutines
\* are numbered in the order of these calls.
Receive(t, e) ==
    /\ tasks[t].pc = "IDLE"
    /\ \A u \in TaskIds : u < t => tasks[u].pc # "IDLE"
    /\ LoopFree(t)
    /\ tasks' = [tasks EXCEPT ![t].pc = "RECEIVED", ![t].event = e]
    /\ UNCHANGED <<reg, pending, declared, sub_commands, sub_command_groups,
                   options, callbacks, slash_commands, user_commands,
                   message_commands, nfuncs, nbuilds, raised, last>>

\* The lookup made with dict.pop in the place of dict.get: the entry found
\* is taken out of the slash table.
Resolve_Pop(t) ==
    /\ tasks[t].pc = "RECEIVED"
    /\ LET e == tasks[t].event
           cmd == LookupCommand(e)
           r == GetCallbackAndType(e, cmd)
       IN /\ tasks' = IF cmd.t = "none"
                      THEN [tasks EXCEPT ![t].pc = "FAILED",
                                         ![t].result = Raise("CommandNotFoundError")]
                      ELSE IF r.err # "none"
                      THEN [tasks EXCEPT ![t].pc = "FAILED",
                                         ![t].result = Raise(r.err)]
                      ELSE [tasks EXCEPT ![t].pc = "RESOLVED",
                                         ![t].callback = r.callback,
                                         ![t].type = r.type]
          /\ slash_commands' =
                IF e.command_type = "SLASH"
                THEN [n \in (DOMAIN slash_commands) \ {e.command_name} |->
                         slash_commands[n]]
                ELSE slash_commands
    /\ UNCHANGED <<reg, pending, declared, sub_commands, sub_command_groups,
                   options, callbacks, user_commands,
                   message_commands, nfuncs, nbuilds, raised, last>>

\* The lookup without `if cmd:`: a name that is in no table is resolved like
\* any other.
Resolve_Unchecked(t) ==
    /\ tasks[t].pc = "RECEIVED"
    /\ LET e == tasks[t].event
           cmd == LookupCommand(e)
           r == GetCallbackAndType(e, cmd)
       IN tasks' = IF r.err # "none"
                   THEN [tasks EXCEPT ![t].pc = "FAILED",
                                      ![t].result = Raise(r.err)]
                   ELSE [tasks EXCEPT ![t].pc = "RESOLVED",
                                      ![t].callback = r.callback,
                                      ![t].type = r.type]
    /\ UNCHANGED <<reg, pending, declared, sub_commands, sub_command_groups,
                   options, callbacks, slash_commands, user_commands,
                   message_commands, nfuncs, nbuilds, raised, last>>

\* The table lookup and _get_callback_and_type: the callback and the depth,
\* or CommandNotFoundError, or the error of a subscription.
Resolve(t) ==
    /\ tasks[t].pc = "RECEIVED"
    /\ LET e == tasks[t].event
           cmd == LookupCommand(e)
           r == GetCallbackAndType(e, cmd)
       IN tasks' = IF cmd.t = "none"
                   THEN [tasks EXCEPT ![t].pc = "FAILED",
                                      ![t].result = Raise("CommandNotFoundError")]
                   ELSE IF r.err # "none"
                   THEN [tasks EXCEPT ![t].pc = "FAILED",
                                      ![t].result = Raise(r.err)]
                   ELSE [tasks EXCEPT ![t].pc = "RESOLVED",
                                      ![t].callback = r.callback,
                                      ![t].type = r.type]
    /\ UNCHANGED <<reg, pending, declared, sub_commands, sub_command_groups,
                   options, callbacks, slash_commands, user_commands,
                   message_commands, nfuncs, nbuilds, raised, last>>

\* The context kept in one attribute of the client in the place of a local
\* variable: every coroutine that has a context sees the one built last.
BuildContext_Shared(t) ==
    /\ tasks[t].pc = "RESOLVED"
    /\ LET ctx == BuiltContext(tasks[t].event, tasks[t].type) IN
       tasks' = [u \in TaskIds |->
                   IF u = t
                   THEN [tasks[u] EXCEPT !.pc = "CONTEXT_BUILT", !.context = ctx]
                   ELSE IF tasks[u].context # NoContext
                   THEN [tasks[u] EXCEPT !.context = ctx]
                   ELSE tasks[u]]
    /\ UNCHANGED <<reg, pending, declared, sub_commands, sub_command_groups,
                   options, callbacks, slash_commands, user_commands,
                   message_commands, nfuncs, nbuilds, raised, last>>

\* context = self._create_context(event, _type)
BuildContext(t) ==
    /\ tasks[t].pc = "RESOLVED"
    /\ tasks' = [tasks EXCEPT
                   ![t].pc = "CONTEXT_BUILT",
                   ![t].context = BuiltContext(tasks[t].event, tasks[t].type)]
    /\ UNCHANGED <<reg, pending, declared, sub_commands, sub_command_groups,
                   options, callbacks, slash_commands, user_commands,
                   message_commands, nfuncs, nbuilds, raised, last>>

\* callback(context): the callback function is called with the context; a
\* dictionary in the place of a function is not callable.
Invoke(t) ==
    /\ tasks[t].pc = "CONTEXT_BUILT"
    /\ tasks' = IF tasks[t].callback.t = "fn"
                THEN [tasks EXCEPT
                        ![t].pc = "RUNNING",
                        ![t].invoked = Append(@, [handler |-> tasks[t].callback.h,
                                                  context |-> tasks[t].context,
                                                  outcome |-> NoResult])]
                ELSE [tasks EXCEPT ![t].pc = "FAILED",
                                   ![t].result = Raise("TypeError")]
    /\ UNCHANGED <<reg, pending, declared, sub_commands, sub_command_groups,
                   options, callbacks, slash_commands, user_commands,
                   message_commands, nfuncs, nbuilds, raised, last>>

\* `return await callback(context)` with the error of the callback caught
\* and None returned in its place.
HandlerDone_Swallow(t, res) ==
    /\ tasks[t].pc = "RUNNING"
    /\ LoopFree(t)
    /\ tasks' = [tasks EXCEPT
                   ![t].pc = "COMPLETED",
                   ![t].invoked[Len(tasks[t].invoked)].outcome = res,
                   ![t].result = IF res.kind = "raise"
                                 THEN [kind |-> "return", val |-> "None"]
                                 ELSE res]
    /\ UNCHANGED <<reg, pending, declared, sub_commands, sub_command_groups,
                   options, callbacks, slash_commands, user_commands,
                   message_commands, nfuncs, nbuilds, raised, last>>

\* `return await callback(context)`: the awaited callback is over; what it
\* returned is returned, what it raised leaves _handle_interaction.
HandlerDone(t, res) ==
    /\ tasks[t].pc = "RUNNING"
    /\ LoopFree(t)
    /\ tasks' = [tasks EXCEPT
                   ![t].pc = IF res.kind = "return" THEN "COMPLETED" ELSE "FAILED",
                   ![t].invoked[Len(tasks[t].invoked)].outcome = res,
                   ![t].result = res]
    /\ UNCHANGED <<reg, pending, declared, sub_commands, sub_command_groups,
                   options, callbacks, slash_commands, user_commands,
                   message_commands, nfuncs, nbuilds, raised, last>>

\* ---------------------------------------------------------- registration
\* The key of the commands without guilds in _gather_commands' dictionary
\* (None), and the target of their overwrite call (hikari.UNDEFINED).
NoneKey == -1
Undefined == 0
GuildIds == {111, 222}
\* The `guilds` of a builder: nothing, or guild ids, each named once.
GuildLists == {<<>>, <<111>>, <<222>>, <<111, 222>>, <<222, 111>>}

\* The order in which the names were inserted into a table.
NameOrder == <<"a", "b">>
TypeOrder == <<"SLASH", "USER", "MESSAGE">>

\* dict.values(), in insertion order
RECURSIVE ValuesFrom(_, _)
ValuesFrom(table, names) ==
    IF names = <<>> THEN <<>>
    ELSE (IF Head(names) \in DOMAIN table THEN <<table[Head(names)]>> ELSE <<>>)
         \o ValuesFrom(table, Tail(names))
Values(table) == ValuesFrom(table, NameOrder)

\* [*slash.values(), *user.values(), *message.values()]
Builders == Values(slash_commands) \o Values(user_commands) \o Values(message_commands)

\* `if key in cmds: cmds[key].append(cmd) else: cmds[key] = [cmd]` on the
\* dictionary cmds, kept in insertion order as a sequence of items.
AddCommand(cmds, key, cmd) ==
    IF \E i \in 1..Len(cmds) : cmds[i].scope = key
    THEN [i \in 1..Len(cmds) |->
            IF cmds[i].scope = key
            THEN [cmds[i] EXCEPT !.cmds = Append(@, cmd)]
            ELSE cmds[i]]
    ELSE Append(cmds, [scope |-> key, cmds |-> <<cmd>>])

\* `for guild in cmd.guilds`
RECURSIVE AddToGuilds(_, _, _)
AddToGuilds(cmds, cmd, guilds) ==
    IF guilds = <<>> THEN cmds
    ELSE AddToGuilds(AddCommand(cmds, Head(guilds), cmd), cmd, Tail(guilds))

\* _gather_commands with `elif None in cmds` written as `if`: a command with
\* guilds is put into the commands without guilds as well.
RECURSIVE GatherFrom_AlsoGlobal(_, _)
GatherFrom_AlsoGlobal(cmds, builders) ==
    IF builders = <<>> THEN cmds
    ELSE LET cmd == Head(builders) IN
         GatherFrom_AlsoGlobal(
            AddCommand(AddToGuilds(cmds, cmd, cmd.guilds), NoneKey, cmd),
            Tail(builders))

\* `for cmd in builders` of _gather_commands
RECURSIVE GatherFrom(_, _)
GatherFrom(cmds, builders) ==
    IF builders = <<>> THEN cmds
    ELSE LET cmd == Head(builders) IN
         GatherFrom(IF cmd.guilds # <<>>
                    THEN AddToGuilds(cmds, cmd, cmd.guilds)
                    ELSE AddCommand(cmds, NoneKey, cmd),
                    Tail(builders))

\* _gather_commands starting from {None: []} in the place of {}.
GatherCommands_GlobalFirst ==
    GatherFrom(<<[scope |-> NoneKey, cmds |-> <<>>]>>, Builders)

\* RESTBotClient._gather_commands
GatherCommands == GatherFrom(<<>>, Builders)

\* `guild_id or hikari.UNDEFINED`
Target(guild_id) ==
    IF guild_id = NoneKey \/ guild_id = 0 THEN Undefined ELSE guild_id

\* register_commands is called: hikari.RESTApp() is made and started.
RegisterStart ==
    /\ reg.pc = "idle"
    /\ reg' = [reg EXCEPT !.pc = "authorize", !.open = TRUE]
    /\ UNCHANGED <<sub_commands, sub_command_groups, options, callbacks,
                   slash_commands, user_commands, message_commands, nfuncs,
                   nbuilds, raised, last, pending, declared,
                   tasks>>

\* authorize_client_credentials_token returns a token, and the commands are
\* gathered, or it raises and the error leaves _register_commands.
RegisterAuthorize(ok) ==
    /\ reg.pc = "authorize"
    /\ reg' = IF ok
              THEN [reg EXCEPT !.pc = "overwrite", !.pending = GatherCommands]
              ELSE [reg EXCEPT !.pc = "failed", !.error = "HTTPError"]
    /\ UNCHANGED <<sub_commands, sub_command_groups, options, callbacks,
                   slash_commands, user_commands, message_commands, nfuncs,
                   nbuilds, raised, last, pending, declared,
                   tasks>>

\* The loop with the call in a try block that notes the error and goes on
\* with the next scope.
RegisterOverwrite_Continue(ok) ==
    /\ reg.pc = "overwrite"
    /\ reg.pending # <<>>
    /\ LET item == Head(reg.pending)
           call == [guild |-> Target(item.scope), cmds |-> item.cmds, ok |-> ok]
       IN reg' = IF ok
                 THEN [reg EXCEPT !.calls = Append(@, call),
                                  !.pending = Tail(@)]
                 ELSE [reg EXCEPT !.calls = Append(@, call),
                                  !.pending = Tail(@), !.error = "HTTPError"]
    /\ UNCHANGED <<sub_commands, sub_command_groups, options, callbacks,
                   slash_commands, user_commands, message_commands, nfuncs,
                   nbuilds, raised, last, pending, declared,
                   tasks>>

\* One turn of `for guild_id, cmds in commands.items()`: the overwrite call
\* is issued; it returns, or it raises and the error leaves
\* _register_commands.
RegisterOverwrite(ok) ==
    /\ reg.pc = "overwrite"
    /\ reg.pending # <<>>
    /\ LET item == Head(reg.pending)
           call == [guild |-> Target(item.scope), cmds |-> item.cmds, ok |-> ok]
       IN reg' = IF ok
                 THEN [reg EXCEPT !.calls = Append(@, call),
                                  !.pending = Tail(@)]
                 ELSE [reg EXCEPT !.calls = Append(@, call),
                                  !.pc = "failed", !.error = "HTTPError"]
    /\ UNCHANGED <<sub_commands, sub_command_groups, options, callbacks,
                   slash_commands, user_commands, message_commands, nfuncs,
                   nbuilds, raised, last, pending, declared,
                   tasks>>

\* The loop is over: `await app.close()`.
RegisterClose ==
    /\ reg.pc = "overwrite"
    /\ reg.pending = <<>>
    /\ reg' = [reg EXCEPT !.pc = "done", !.open = FALSE]
    /\ UNCHANGED <<sub_commands, sub_command_groups, options, callbacks,
                   slash_commands, user_commands, message_commands, nfuncs,
                   nbuilds, raised, last, pending, declared,
                   tasks>>

\* ------------------------------------------------------- specifications
\* Spec: the declaration calls on the command tree, in any order.
Next ==
    \/ \E g \in GroupIds, n \in LeafNames : GroupCommandLeaf(g, n)
    \/ \E g \in GroupIds, s \in SubIds : GroupCommandSubGroup(g, s)
    \/ \E s \in SubIds, n \in LeafNames : SubGroupCommandLeaf(s, n)
    \/ \E s \in SubIds, o \in SubIds : SubGroupCommandArg(s, o)
    \/ \E s \in SubIds, o \in SubIds : SubGroupCommandSubGroup(s, o)
    \/ \E g \in GroupIds : ClientCommandGroup(g)

Spec == Init /\ [][Next]_vars

\* SpecDispatch: a program that declares its commands and then serves
\* interactions.  The declarations are made in the order a module usually
\* makes them (the leaves of the sub-groups, the leaves of the group, the
\* sub-groups, client.command(group), the decorated commands) and all of
\* them precede the first interaction.
NoTables == slash_commands = EmptyTable /\ user_commands = EmptyTable
            /\ message_commands = EmptyTable
Declaring == last = <<>> /\ \A t \in TaskIds : tasks[t].pc = "IDLE"
NoGroupBuilt == \A g \in GroupIds : nbuilds[g] = 0
NoSubGroupAttached == \A g \in GroupIds : sub_command_groups[g] = <<>>
NoGroupLeaf == \A g \in GroupIds : sub_commands[g] = <<>>

DeclareSubGroupLeaf(s, n) ==
    /\ Declaring /\ NoTables /\ NoGroupBuilt /\ NoSubGroupAttached /\ NoGroupLeaf
    /\ SubGroupCommandLeaf(s, n)
DeclareGroupLeaf(g, n) ==
    /\ Declaring /\ NoTables /\ NoGroupBuilt /\ NoSubGroupAttached
    /\ GroupCommandLeaf(g, n)
DeclareSubGroup(g, s) ==
    /\ Declaring /\ NoTables /\ NoGroupBuilt
    /\ GroupCommandSubGroup(g, s)
DeclareGroup(g) ==
    /\ Declaring /\ user_commands = EmptyTable /\ message_commands = EmptyTable
    /\ \A n \in DOMAIN slash_commands : slash_commands[n].t = "group"
    /\ ClientCommandGroup(g)
DeclareCommand(t, n) ==
    /\ Declaring
    /\ ClientCommand(t, n, <<>>)

NextDispatch ==
    \/ \E s \in SubIds, n \in LeafNames : DeclareSubGroupLeaf(s, n)
    \/ \E g \in GroupIds, n \in LeafNames : DeclareGroupLeaf(g, n)
    \/ \E g \in GroupIds, s \in SubIds : DeclareSubGroup(g, s)
    \/ \E g \in GroupIds : DeclareGroup(g)
    \/ \E t \in CommandTypes, n \in Names : DeclareCommand(t, n)
    \/ \E e \in Events : Dispatch(e)

SpecDispatch == Init /\ [][NextDispatch]_vars

\* SpecRegister: a program that gives decorated commands with guilds to the
\* client, slash commands first and each table in the order of NameOrder, and
\* then calls register_commands.
RECURSIVE IndexOf(_, _)
IndexOf(seq, x) == IF Head(seq) = x THEN 1 ELSE 1 + IndexOf(Tail(seq), x)
SlotNo(t, n) == (IndexOf(TypeOrder, t) - 1) * Len(NameOrder) + IndexOf(NameOrder, n)
DeclareScoped(t, n, guilds) ==
    /\ reg.pc = "idle"
    /\ \A t2 \in CommandTypes : \A n2 \in DOMAIN TableOf(t2) :
          SlotNo(t2, n2) < SlotNo(t, n)
    /\ ClientCommand(t, n, guilds)

NextRegister ==
    \/ \E t \in CommandTypes, n \in Names, gl \in GuildLists : DeclareScoped(t, n, gl)
    \/ RegisterStart
    \/ \E ok \in BOOLEAN : RegisterAuthorize(ok)
    \/ \E ok \in BOOLEAN : RegisterOverwrite(ok)
    \/ RegisterClose

SpecRegister == Init /\ [][NextRegister]_vars

\* SpecFlight: a program that declares a group of sub-commands and decorated
\* slash and user commands, and then serves interactions, the event loop
\* running up to two _handle_interaction coroutines at a time.
NextFlight ==
    \/ \E g \in GroupIds, n \in LeafNames : DeclareGroupLeaf(g, n)
    \/ \E g \in GroupIds : DeclareGroup(g)
    \/ \E t \in {"SLASH", "USER"}, n \in Names : DeclareCommand(t, n)
    \/ \E t \in TaskIds, e \in FlightEvents : Receive(t, e)
    \/ \E t \in TaskIds : Resolve(t)
    \/ \E t \in TaskIds : BuildContext(t)
    \/ \E t \in TaskIds : Invoke(t)
    \/ \E t \in TaskIds, res \in HandlerResults : HandlerDone(t, res)

SpecFlight == Init /\ [][NextFlight]_vars

\* SpecOption: a program that declares slash commands with options and
\* gives them to the client.
NextOption ==
    \/ \E n \in Names : SlashCommandDecorate(n)
    \/ \E d \in Descriptors : OptionDecorate(d)
    \/ ClientCommandBuilder

SpecOption == Init /\ [][NextOption]_vars

\* SpecFlight with what the event loop guarantees: a coroutine that can run
\* is run, and (the handlers being assumed to terminate) an awaited callback
\* is over at some time.
FairSpecFlight ==
    /\ SpecFlight
    /\ \A t \in TaskIds :
         /\ WF_vars(Resolve(t))
         /\ WF_vars(BuildContext(t))
         /\ WF_vars(Invoke(t))
         /\ WF_vars(\E res \in HandlerResults : HandlerDone(t, res))

\* SpecAttach: a program that attaches decorated commands to a group and
\* gives the group and decorated commands of the three types to the client,
\* in any order and any number of times.
NextAttach ==
    \/ \E g \in GroupIds, n \in LeafNames : GroupCommandLeaf(g, n)
    \/ \E g \in GroupIds : ClientCommandGroup(g)
    \/ \E t \in CommandTypes, n \in Names : ClientCommand(t, n, <<>>)

SpecAttach == Init /\ [][NextAttach]_vars

\* ==================================================================== claims
\* What the claims speak of.
Leaves(o) == {sub_commands[o][i] : i \in {j \in 1..Len(sub_commands[o]) :
                                            sub_commands[o][j].kind = "leaf"}}
SubGroupsOf(g) == {sub_command_groups[g][i] : i \in 1..Len(sub_command_groups[g])}
OnlyLeaves(o) == \A i \in 1..Len(sub_commands[o]) : sub_commands[o][i].kind = "leaf"
DistinctLeafNames(o) ==
    \A i, j \in 1..Len(sub_commands[o]) :
        i # j => sub_commands[o][i].name # sub_commands[o][j].name
\* The children of g (sub-commands and sub-groups) have pairwise distinct names.
DistinctChildren(g) ==
    /\ OnlyLeaves(g) /\ DistinctLeafNames(g)
    /\ \A i, j \in 1..Len(sub_command_groups[g]) :
          i # j => NameOf(sub_command_groups[g][i]) # NameOf(sub_command_groups[g][j])
    /\ \A c \in Leaves(g), s \in SubGroupsOf(g) : c.name # NameOf(s)
Dispatched == {last[i] : i \in 1..Len(last)}
FirstOption(e) == e.options.items[1]

\* C1: a SLASH event for a group built once with children of distinct names,
\* whose first option is a SUB_COMMAND naming an attached leaf, calls the
\* callback that leaf was declared with, and the context's options are that
\* option's nested options.
C1_SubCommandDispatch ==
    \A r \in Dispatched :
      LET e == r.event IN
      \A g \in GroupIds : \A c \in Leaves(g) :
        ( /\ e.command_type = "SLASH"
          /\ e.command_name \in DOMAIN slash_commands
          /\ slash_commands[e.command_name] = GroupEntry(g)
          /\ nbuilds[g] = 1
          /\ DistinctChildren(g)
          /\ ~Falsy(e.options)
          /\ FirstOption(e).type = "SUB_COMMAND"
          /\ FirstOption(e).name = c.name )
        => ( /\ r.error = "none"
             /\ r.handler = c.handler
             /\ r.options = FirstOption(e).options )

C1_Witness ==
    \E r \in Dispatched : \E g \in GroupIds : \E c \in Leaves(g) :
        /\ r.event.command_type = "SLASH"
        /\ r.event.command_name \in DOMAIN slash_commands
        /\ slash_commands[r.event.command_name] = GroupEntry(g)
        /\ nbuilds[g] = 1 /\ DistinctChildren(g)
        /\ SubGroupsOf(g) # {}
        /\ Len(r.event.options.items) = 2
        /\ FirstOption(r.event).type = "SUB_COMMAND"
        /\ FirstOption(r.event).name = c.name
        /\ r.handler = c.handler
        /\ r.options = NoneOpts

C3_CommandNotFound ==
    \A r \in Dispatched :
        r.event.command_name \notin DOMAIN TableOf(r.event.command_type)
        => (r.error = "CommandNotFoundError" /\ r.handler = 0)

C3_Witness ==
    \E r \in Dispatched :
        /\ r.event.command_name \notin DOMAIN TableOf(r.event.command_type)
        /\ \E t \in CommandTypes : r.event.command_name \in DOMAIN TableOf(t)
        /\ r.error = "CommandNotFoundError"

\* What one _build of group g makes of builders that were never built.
FreshBuild(g) ==
    GroupBuild([options |-> [o \in Owners |-> <<>>],
                callbacks |-> [o \in Owners |-> EmptyDict],
                err |-> "none"], g)

\* C4: _build called again on a group whose definition is what one _build
\* of its present tree makes leaves the option lists of the group and of its
\* sub-groups as they are.
C4_BuildIdempotent ==
    [][\A g \in GroupIds :
         ( /\ nbuilds[g] >= 1
           /\ nbuilds'[g] = nbuilds[g] + 1
           /\ options = FreshBuild(g).options )
         => options' = options]_vars

\* The scopes a definition targets: its guilds, or the global scope.
ScopesOf(d) == IF d.guilds = <<>> THEN {Undefined}
               ELSE {d.guilds[i] : i \in 1..Len(d.guilds)}
Definitions == UNION {{TableOf(t)[n] : n \in DOMAIN TableOf(t)} : t \in CommandTypes}
Occurrences(seq, x) == Cardinality({i \in 1..Len(seq) : seq[i] = x})

\* C5: a completed register_commands has issued one overwrite call per
\* scope that a definition of the tables targets, and the call for a scope
\* holds each definition targeting it once and no other definition.
C5_OneCallPerScope ==
    reg.pc = "done" =>
      /\ \A i, j \in 1..Len(reg.calls) :
            i # j => reg.calls[i].guild # reg.calls[j].guild
      /\ {reg.calls[i].guild : i \in 1..Len(reg.calls)}
            = UNION {ScopesOf(d) : d \in Definitions}
      /\ \A i \in 1..Len(reg.calls) :
           /\ \A k \in 1..Len(reg.calls[i].cmds) :
                 reg.calls[i].cmds[k] \in Definitions
           /\ \A d \in Definitions :
                 Occurrences(reg.calls[i].cmds, d)
                   = IF reg.calls[i].guild \in ScopesOf(d) THEN 1 ELSE 0

C5_Witness ==
    /\ reg.pc = "done"
    /\ {reg.calls[i].guild : i \in 1..Len(reg.calls)} = {Undefined, 111, 222}
    /\ Len(reg.calls) = 3
    /\ \E i \in 1..Len(reg.calls) : Len(reg.calls[i].cmds) = 2

\* C6: a SLASH event without options for a decorated (flat) command calls
\* that command's callback with no options in the context.
C6_NoOptions ==
    \A r \in Dispatched :
      LET e == r.event IN
        ( /\ e.command_type = "SLASH"
          /\ Falsy(e.options)
          /\ e.command_name \in DOMAIN slash_commands
          /\ slash_commands[e.command_name].t = "flat" )
        => ( /\ r.error = "none"
             /\ r.handler = slash_commands[e.command_name].h
             /\ r.type = "None"
             /\ r.options = e.options
             /\ r.options.items = <<>> )

C6_Witness ==
    \E r \in Dispatched :
        /\ r.event.command_type = "SLASH"
        /\ Falsy(r.event.options)
        /\ r.event.command_name \in DOMAIN slash_commands
        /\ slash_commands[r.event.command_name].t = "flat"
        /\ r.event.command_name \in DOMAIN user_commands
        /\ r.handler = slash_commands[r.event.command_name].h

\* C7: a SLASH event whose first option is an ordinary parameter, for a
\* decorated (flat) command, calls that command's callback with the event's
\* whole option list.
C7_LeafParameters ==
    \A r \in Dispatched :
      LET e == r.event IN
        ( /\ e.command_type = "SLASH"
          /\ ~Falsy(e.options)
          /\ FirstOption(e).type \notin {"SUB_COMMAND", "SUB_COMMAND_GROUP"}
          /\ e.command_name \in DOMAIN slash_commands
          /\ slash_commands[e.command_name].t = "flat" )
        => ( /\ r.error = "none"
             /\ r.handler = slash_commands[e.command_name].h
             /\ r.type = "None"
             /\ r.options = e.options )

C7_Witness ==
    \E r \in Dispatched :
        /\ r.event.command_type = "SLASH"
        /\ Len(r.event.options.items) = 2
        /\ FirstOption(r.event).type = "STRING"
        /\ r.event.command_name \in DOMAIN slash_commands
        /\ slash_commands[r.event.command_name].t = "flat"
        /\ r.handler = slash_commands[r.event.command_name].h
        /\ r.options = r.event.options

\* C8: a USER or MESSAGE event whose name is in the table of its type calls
\* the callback of that table's definition, with flat depth, whatever
\* options it carries and whatever the other tables hold under the name.
C8_ContextMenu ==
    \A r \in Dispatched :
      LET e == r.event IN
        ( /\ e.command_type \in {"USER", "MESSAGE"}
          /\ e.command_name \in DOMAIN TableOf(e.command_type) )
        => ( /\ r.error = "none"
             /\ r.handler = TableOf(e.command_type)[e.command_name].h
             /\ r.type = "None"
             /\ r.options = e.options )

C8_Witness ==
    \E r \in Dispatched :
        /\ r.event.command_type = "MESSAGE"
        /\ r.event.command_name \in DOMAIN message_commands
        /\ r.event.command_name \in DOMAIN user_commands
        /\ r.event.command_name \in DOMAIN slash_commands
        /\ ~Falsy(r.event.options)
        /\ FirstOption(r.event).type = "SUB_COMMAND"
        /\ r.handler = message_commands[r.event.command_name].h

\* The callback functions that can be resolved through g's dictionary.
ResolvableCount(g) ==
    LET d == callbacks[g]
        fns == {n \in DOMAIN d : d[n].t = "fn"}
        maps == {n \in DOMAIN d : d[n].t = "map"}
        RECURSIVE Sum(_)
        Sum(S) == IF S = {} THEN 0
                  ELSE LET n == CHOOSE x \in S : TRUE
                       IN Cardinality(DOMAIN callbacks[d[n].of]) + Sum(S \ {n})
    IN Cardinality(fns) + Sum(maps)
\* N leaves and M sub-groups, each sub-group with at least one child, all
\* children leaves, all names distinct.
WellFormed(g) ==
    /\ DistinctChildren(g)
    /\ \A s \in SubGroupsOf(g) :
          sub_commands[s] # <<>> /\ OnlyLeaves(s) /\ DistinctLeafNames(s)
LeafTotal(g) ==
    LET RECURSIVE Sum(_)
        Sum(S) == IF S = {} THEN 0
                  ELSE LET s == CHOOSE x \in S : TRUE
                       IN Len(sub_commands[s]) + Sum(S \ {s})
    IN Len(sub_commands[g]) + Sum(SubGroupsOf(g))

\* C9: the first _build of a group of N leaves and M sub-groups (each with a
\* leaf, all names distinct) leaves N+M options in the definition and N plus
\* the sub-groups' leaf counts callbacks resolvable through its dictionary.
C9_BuildCounts ==
    [][\A g \in GroupIds :
         (nbuilds[g] = 0 /\ nbuilds'[g] = 1 /\ WellFormed(g))
         => ( /\ raised' = "none"
              /\ Len(options'[g])
                   = Len(sub_commands[g]) + Len(sub_command_groups[g])
              /\ ResolvableCount(g)' = LeafTotal(g) )]_vars

C9_Witness ==
    \E g \in GroupIds :
        /\ nbuilds[g] = 1 /\ WellFormed(g)
        /\ Len(sub_commands[g]) >= 1 /\ Len(sub_command_groups[g]) >= 1
        /\ Len(options[g]) = Len(sub_commands[g]) + Len(sub_command_groups[g])
        /\ ResolvableCount(g) = LeafTotal(g)

\* C10: every attempt to attach a sub-group to a sub-group raises
\* DepthExceededError and leaves the sub-group's children and definition as
\* they were.
C10_DepthExceeded ==
    [][(\E s, o \in SubIds :
           SubGroupCommandArg(s, o) \/ SubGroupCommandSubGroup(s, o))
       => ( /\ raised' = "DepthExceededError"
            /\ sub_commands' = sub_commands
            /\ options' = options )]_vars

\* C11: whenever _register_commands is over, by returning or by an error of
\* the credential exchange or of an overwrite call, the RESTApp it started
\* has been closed.
C11_SessionReleased ==
    reg.pc \in {"done", "failed"} => ~reg.open

\* C12: when an overwrite call fails, the error that leaves register_commands
\* is a RegistrationError, and the scope of the failed call was called once.
C12_RegistrationError ==
    ( /\ reg.pc = "failed"
      /\ reg.calls # <<>>
      /\ ~reg.calls[Len(reg.calls)].ok )
    => ( /\ reg.error = "RegistrationError"
         /\ \A i \in 1..(Len(reg.calls) - 1) :
               reg.calls[i].guild # reg.calls[Len(reg.calls)].guild )

\* The table new is the table old with the entry v under the name n, and
\* every other entry as it was.
AttachedTo(old, new, n, v) ==
    /\ DOMAIN new = (DOMAIN old) \cup {n}
    /\ new[n] = v
    /\ \A x \in (DOMAIN old) \ {n} : new[x] = old[x]

\* C13: no attach call removes a name from a table; a call changes at most
\* the table of the attached definition's type; after a decorated command
\* (or a group) is attached, its table holds it under its name, also when the
\* name was already there, and the other entries are as they were.
C13_TablesGrow ==
    [][ /\ \A t \in CommandTypes :
            /\ DOMAIN TableOf(t) \subseteq DOMAIN TableOf(t)'
            /\ TableOf(t)' # TableOf(t)
                 => \A u \in CommandTypes \ {t} : TableOf(u)' = TableOf(u)
        /\ (nfuncs' = nfuncs + 1 /\ sub_commands' = sub_commands
                                 /\ pending' = pending)
             => \E t \in CommandTypes, n \in Names :
                    AttachedTo(TableOf(t), TableOf(t)', n,
                               FlatEntry(nfuncs', <<>>))
        /\ \A g \in GroupIds :
             (nbuilds'[g] = nbuilds[g] + 1 /\ raised' = "none")
             => ( /\ AttachedTo(slash_commands, slash_commands', NameOf(g),
                                GroupEntry(g))
                  /\ user_commands' = user_commands
                  /\ message_commands' = message_commands ) ]_vars

\* Three decorated commands were given to the client and two of them have
\* been replaced: the tables hold the group and the last command only.
C13_Witness ==
    /\ nfuncs = 3
    /\ \A g \in GroupIds : sub_commands[g] = <<>>
    /\ DOMAIN slash_commands = {"a"} /\ slash_commands["a"].t = "group"
    /\ DOMAIN user_commands = {"a"} /\ user_commands["a"] = FlatEntry(3, <<>>)
    /\ message_commands = EmptyTable

\* The coroutine has resolved its event to a callback function.
ResolvedToHandler(k) ==
    /\ k.pc \in {"RUNNING", "COMPLETED", "FAILED"}
    /\ k.callback.t = "fn" /\ k.callback.h # 0

\* C14: a dispatch that resolved its event to a callback function has called
\* that function once, with the context built from the event; when the
\* function is over, what leaves _handle_interaction is what the function
\* returned or the error it raised.
C14_HandlerResult ==
    \A t \in TaskIds :
      LET k == tasks[t] IN
        /\ Len(k.invoked) <= 1
        /\ ResolvedToHandler(k)
            => ( /\ Len(k.invoked) = 1
                 /\ k.invoked[1].handler = HandleInteraction(k.event).handler
                 /\ k.invoked[1].context = BuiltContext(k.event, k.type)
                 /\ k.pc = "RUNNING" => k.result = NoResult
                 /\ k.pc # "RUNNING"
                      => ( /\ k.result = k.invoked[1].outcome
                           /\ k.result \in HandlerResults
                           /\ k.pc = IF k.result.kind = "return"
                                     THEN "COMPLETED" ELSE "FAILED" ) )

C14_Witness ==
    \E t, u \in TaskIds :
        /\ tasks[t].pc = "FAILED" /\ Len(tasks[t].invoked) = 1
        /\ tasks[t].result = Raise("HandlerError")
        /\ tasks[u].pc = "COMPLETED" /\ Len(tasks[u].invoked) = 1
        /\ tasks[u].result = [kind |-> "return", val |-> "deferred"]
        /\ tasks[u].event.options # NoneOpts

\* An option that section 4.1 allows: at most ChoiceLimit choices, a numeric
\* bound only on a numeric type, channel types only on a channel option.
ValidOption(o) ==
    /\ Len(o.choices.items) <= ChoiceLimit
    /\ ~o.min_value.isNone => o.type \in {"INTEGER", "FLOAT"}
    /\ ~o.channel_types.isNone => o.type = "CHANNEL"

\* C15: option(...) on a builder with over ChoiceLimit choices, a numeric
\* bound on a non-numeric type or channel types on a non-channel type raises
\* InvalidOptionError and leaves the builder's options as they were, and no
\* entry of the slash table carries such an option.
C15_InvalidOption ==
    /\ [][\A d \in Descriptors :
            (~ValidOption(CommandOption(d)) /\ OptionDecorate(d))
            => (raised' = "InvalidOptionError" /\ pending' = pending)]_vars
    /\ [](\A n \in DOMAIN slash_commands :
            \A i \in 1..Len(slash_commands[n].options) :
                ValidOption(slash_commands[n].options[i]))

\* The names of a list of options, in the order of the list.
OptionNames(opts) == [i \in 1..Len(opts) |-> opts[i].name]

\* C16: the first _build of a group leaves its options in the order in
\* which its sub-commands and sub-groups were attached.
C16_OptionOrder ==
    [][\A g \in GroupIds :
         (nbuilds[g] = 0 /\ nbuilds'[g] = 1 /\ raised' = "none")
         => OptionNames(options'[g]) = declared[g]]_vars

\* The types of the options of a list.
OptionTypes(opts) == {opts[i].type : i \in 1..Len(opts)}

\* C17: the definition of every group in the slash table has options of one
\* type only (all SUB_COMMAND or all SUB_COMMAND_GROUP), and a _build of a
\* group with both a sub-command and a sub-group attached raises.
C17_UniformTree ==
    /\ [](\A n \in DOMAIN slash_commands :
            slash_commands[n].t = "group"
            => Cardinality(OptionTypes(options[slash_commands[n].id])) <= 1)
    /\ [][\A g \in GroupIds :
            ( /\ nbuilds'[g] = nbuilds[g] + 1
              /\ sub_commands[g] # <<>> /\ sub_command_groups[g] # <<>> )
            => (raised' # "none" /\ slash_commands' = slash_commands)]_vars

\* The SUB_COMMAND options of a list and the names under which a dictionary
\* holds callback functions correspond one to one; likewise the
\* SUB_COMMAND_GROUP options and the names under which it holds dictionaries.
SameShape(opts, d) ==
    LET subs == {i \in 1..Len(opts) : opts[i].type = "SUB_COMMAND"}
        grps == {i \in 1..Len(opts) : opts[i].type = "SUB_COMMAND_GROUP"}
        fns == {n \in DOMAIN d : d[n].t = "fn"}
        maps == {n \in DOMAIN d : d[n].t = "map"}
    IN /\ Cardinality(subs) = Cardinality(fns)
       /\ {opts[i].name : i \in subs} = fns
       /\ Cardinality(grps) = Cardinality(maps)
       /\ {opts[i].name : i \in grps} = maps

\* C18: at every moment the callback dictionary of a group has the shape of
\* its option list, and under each SUB_COMMAND_GROUP option the nested
\* dictionary has the shape of the option's own options.
C18_SameShape ==
    \A g \in GroupIds :
        /\ SameShape(options[g], callbacks[g])
        /\ \A i \in 1..Len(options[g]) :
             ( /\ options[g][i].type = "SUB_COMMAND_GROUP"
               /\ options[g][i].name \in DOMAIN callbacks[g]
               /\ callbacks[g][options[g][i].name].t = "map" )
             => SameShape(options[g][i].options,
                          callbacks[callbacks[g][options[g][i].name].of])

\* C19: no step of a dispatch, whether the dispatch completes or fails,
\* changes a command table, an option list, a callback dictionary or the
\* children of a group.
C19_DispatchFrame ==
    [][tasks' # tasks
       => UNCHANGED <<slash_commands, user_commands, message_commands,
                      options, callbacks, sub_commands,
                      sub_command_groups>>]_vars

C19_Witness ==
    \E t, u \in TaskIds :
        /\ tasks[t].pc = "COMPLETED"
        /\ tasks[u].pc = "FAILED" /\ tasks[u].invoked = <<>>
        /\ \E g \in GroupIds :
              /\ "a" \in DOMAIN slash_commands
              /\ slash_commands["a"] = GroupEntry(g)
              /\ Len(options[g]) = 2
        /\ user_commands # EmptyTable

\* The steps a coroutine's position can take.
PcSteps ==
    {<<"IDLE", "RECEIVED">>, <<"RECEIVED", "RESOLVED">>,
     <<"RECEIVED", "FAILED">>, <<"RESOLVED", "CONTEXT_BUILT">>,
     <<"CONTEXT_BUILT", "RUNNING">>, <<"CONTEXT_BUILT", "FAILED">>,
     <<"RUNNING", "COMPLETED">>, <<"RUNNING", "FAILED">>}

\* C20: a dispatch goes from RECEIVED to RESOLVED to CONTEXT_BUILT to
\* COMPLETED (through the call of the callback), or to FAILED; a callback is
\* called only for an event whose name its table holds and after the context
\* was built from the event; and every dispatch that was received is
\* COMPLETED or FAILED at some time.
C20_StateMachine ==
    /\ [][\A t \in TaskIds :
            tasks'[t].pc # tasks[t].pc
            => <<tasks[t].pc, tasks'[t].pc>> \in PcSteps]_vars
    /\ [](\A t \in TaskIds :
            (tasks[t].invoked # <<>> \/ tasks[t].pc \in {"RUNNING", "COMPLETED"})
            => ( /\ LookupCommand(tasks[t].event).t # "none"
                 /\ tasks[t].context = BuiltContext(tasks[t].event, tasks[t].type)
                 /\ \A i \in 1..Len(tasks[t].invoked) :
                       tasks[t].invoked[i].context = tasks[t].context ))
    /\ \A t \in TaskIds :
         (tasks[t].pc = "RECEIVED") ~> (tasks[t].pc \in {"COMPLETED", "FAILED"})

C20_Witness ==
    \E t, u \in TaskIds :
        /\ t # u
        /\ tasks[t].pc = "COMPLETED" /\ tasks[t].type = "SUB_COMMAND"
        /\ tasks[u].pc = "FAILED"
        /\ tasks[u].result = Raise("CommandNotFoundError")

\* C21: with several dispatches in flight, a step of one coroutine leaves
\* every other coroutine as it was, and what a coroutine does is what the
\* dispatch of its own event alone does: the callback it calls, once, is the
\* one its event resolves to, the context is the one built from its event,
\* and a dispatch that fails before the call fails with its own error.
C21_Isolation ==
    /\ [][\A t \in TaskIds :
            tasks'[t] # tasks[t]
            => \A u \in TaskIds \ {t} : tasks'[u] = tasks[u]]_vars
    /\ [](\A t \in TaskIds :
            LET k == tasks[t]
                own == HandleInteraction(k.event)
            IN k.pc \in {"RUNNING", "COMPLETED", "FAILED"}
               => IF own.error = "none"
                  THEN /\ k.invoked = <<[handler |-> own.handler,
                                         context |-> k.context,
                                         outcome |-> k.result]>>
                       /\ k.context = [command_name |-> k.event.command_name,
                                       command_type |-> k.event.command_type,
                                       options |-> own.options]
                  ELSE /\ k.invoked = <<>>
                       /\ k.pc = "FAILED"
                       /\ k.result = Raise(own.error))

\* The second dispatch was received, called its callback and failed while
\* the first, of another event, was awaiting its callback.
C21_Witness ==
    /\ tasks[1].pc = "RUNNING"
    /\ tasks[2].pc = "FAILED"
    /\ tasks[2].result = Raise("HandlerError")
    /\ tasks[1].event.command_name # tasks[2].event.command_name
    /\ tasks[1].invoked[1].handler # tasks[2].invoked[1].handler
    /\ tasks[1].invoked[1].context # tasks[2].invoked[1].context

\* C22: the overwrite calls are issued one after another and are never
\* taken back; a call that fails is the last call issued, the calls before
\* it succeeded, the scopes after it get no call, and the error leaves
\* register_commands.
C22_NoRollback ==
    /\ [][ /\ Len(reg'.calls) >= Len(reg.calls)
           /\ SubSeq(reg'.calls, 1, Len(reg.calls)) = reg.calls
           /\ reg.pc = "failed" => reg'.calls = reg.calls ]_vars
    /\ [](\A i \in 1..Len(reg.calls) :
            ~reg.calls[i].ok
            => ( /\ i = Len(reg.calls)
                 /\ reg.pc = "failed"
                 /\ reg.error # "none"
                 /\ \A j \in 2..Len(reg.pending) : \A c \in 1..Len(reg.calls) :
                       Target(reg.pending[j].scope) # reg.calls[c].guild ))

\* The second of three scopes failed after the first was overwritten.
C22_Witness ==
    /\ reg.pc = "failed"
    /\ Len(reg.calls) = 2
    /\ reg.calls[1].ok /\ ~reg.calls[2].ok
    /\ Len(reg.pending) = 2
    /\ reg.error = "HTTPError"

\* C23: every overwrite call that is issued is for a scope that a definition
\* of the tables targets and carries a definition; so with every definition
\* naming guilds there is no call for the global scope, and with empty
\* tables a run of register_commands ends without a call.
C23_NoCallForEmptyScope ==
    /\ \A i \in 1..Len(reg.calls) :
          /\ reg.calls[i].cmds # <<>>
          /\ \E d \in Definitions : reg.calls[i].guild \in ScopesOf(d)
    /\ (\A d \in Definitions : d.guilds # <<>>)
         => \A i \in 1..Len(reg.calls) : reg.calls[i].guild # Undefined
    /\ (Definitions = {} /\ reg.pc \in {"overwrite", "done"})
         => (reg.calls = <<>> /\ reg.pending = <<>>)

\* Two definitions, both for guild 111 only: one call, for that guild.
C23_Witness ==
    /\ reg.pc = "done"
    /\ Cardinality(Definitions) = 2
    /\ \A d \in Definitions : d.guilds = <<111>>
    /\ Len(reg.calls) = 1
    /\ reg.calls[1].guild = 111
    /\ Len(reg.calls[1].cmds) = 2

\* The names an event gives below its command name: none, the sub-command,
\* or the sub-group and the sub-command; Unnamed where a SUB_COMMAND_GROUP
\* option carries no nested option.
Unnamed == "-"
PathOf(e) ==
    IF e.command_type # "SLASH" \/ Falsy(e.options) THEN <<>>
    ELSE IF FirstOption(e).type = "SUB_COMMAND" THEN <<FirstOption(e).name>>
    ELSE IF FirstOption(e).type = "SUB_COMMAND_GROUP"
    THEN <<FirstOption(e).name,
           IF Falsy(FirstOption(e).options) THEN Unnamed
           ELSE FirstOption(e).options.items[1].name>>
    ELSE <<>>

\* What the callback map holds at a path below the value v: a callback
\* function, a dictionary, or nothing.
Nothing == [t |-> "nothing", h |-> 0, of |-> "-"]
RECURSIVE StoredAt(_, _)
StoredAt(v, path) ==
    IF path = <<>> THEN v
    ELSE IF v.t = "map" /\ Head(path) \in DOMAIN callbacks[v.of]
    THEN StoredAt(callbacks[v.of][Head(path)], Tail(path))
    ELSE Nothing

\* C24: for an event whose command is in the table of its type, a callback
\* is called only if the callback map holds a function at the very path the
\* event names, and then it is that function; where the path holds a
\* dictionary or nothing (a sub-command or group never attached, a nesting
\* option for a flat command, no options for a group) the dispatch fails and
\* no callback is called.
C24_ShapeMismatch ==
    \A r \in Dispatched :
      LET e == r.event IN
        e.command_name \in DOMAIN TableOf(e.command_type)
        => LET v == StoredAt(RootCallback(TableOf(e.command_type)[e.command_name]),
                            PathOf(e))
           IN IF v.t = "fn"
              THEN r.error = "none" /\ r.handler = v.h
              ELSE r.error # "none" /\ r.handler = 0

\* A SUB_COMMAND event for a group with sub-commands, naming a sub-command
\* that was never attached.
C24_Witness ==
    \E r \in Dispatched : \E g \in GroupIds :
        /\ r.event.command_type = "SLASH"
        /\ r.event.command_name \in DOMAIN slash_commands
        /\ slash_commands[r.event.command_name] = GroupEntry(g)
        /\ Leaves(g) # {}
        /\ ~Falsy(r.event.options)
        /\ FirstOption(r.event).type = "SUB_COMMAND"
        /\ \A c \in Leaves(g) : c.name # FirstOption(r.event).name
        /\ \A s \in SubGroupsOf(g) : NameOf(s) # FirstOption(r.event).name
        /\ r.error = "KeyError" /\ r.handler = 0
====
